---- MODULE Spec2Model ----
(***************************************************************************)
(* Point quadtree of Algos-Test/PointQuadTree.cpp.                         *)
(*                                                                         *)
(* The nodes live in a heap: heap[i] is the PointQuadTree object that the  *)
(* i-th `new` (or the construction of the root) produced, a child pointer  *)
(* is an index into the heap and nullptr is NULL.  The root is heap[Root]. *)
(* Insert, Subdivide and QueryRange are the recursive member functions,    *)
(* written as operators over the heap that return the heap they leave.     *)
(***************************************************************************)
EXTENDS Integers, Sequences, FiniteSets, TLC

VARIABLES capacity, heap, accepted, op, data, ret, range, results

\* The calls in flight when Insert and QueryRange run statement by
\* statement: thr[t] is the call of thread t with its stack of frames,
\* overlap tells whether a call has started while another was in flight,
\* midSplit whether a query has read a null northEast on a node that
\* already had another child.
VARIABLES thr, overlap, midSplit

cvars == <<thr, overlap, midSplit>>

vars == <<capacity, heap, accepted, op, data, ret, range, results, thr, overlap, midSplit>>

(***************************************************************************)
(* Bounds of the model.                                                    *)
(***************************************************************************)
\* Insert is called while the tree stores fewer than MaxInserts entries.
MaxInserts == 3
\* QT_NODE_MAX_CAPACITY is a value of 1..MaxCapacity.
MaxCapacity == 2
\* Half-extents of the (square) query ranges: 0..MaxRangeHalf.
MaxRangeHalf == 1
\* The specification with queries calls Insert while fewer than
\* MaxInsertsQ entries are stored.
MaxInsertsQ == 2
\* The statement-by-statement sequential specification calls Insert while
\* fewer than MaxInsertsS entries are stored.
MaxInsertsS == 3
\* The specification with a concurrent query starts its calls on a tree
\* that stores at most MaxInsertsC entries.
MaxInsertsC == 1

(***************************************************************************)
(* Geometry: Vector2 and Rect_AABB (PointQuadTree.hpp is not part of the   *)
(* sources; the region predicates follow section 3 of the specification).  *)
(***************************************************************************)
Vector2(x, y) == [x |-> x, y |-> y]

Rect_AABB(center, half) == [centerPoint |-> center, halfDimension |-> half]

Abs(i) == IF i < 0 THEN -i ELSE i

\* boundaries.contains(point): the point lies within
\* [center - half, center + half] on both axes.
contains(b, p) ==
    /\ b.centerPoint.x - b.halfDimension.x <= p.x
    /\ p.x <= b.centerPoint.x + b.halfDimension.x
    /\ b.centerPoint.y - b.halfDimension.y <= p.y
    /\ p.y <= b.centerPoint.y + b.halfDimension.y

\* range.ContainsPoint(point), the test the query applies to an entry.
ContainsPoint(b, d) == contains(b, d.point)

\* boundaries.Intersects_AABB(range): the two regions overlap on both axes.
Intersects_AABB(a, b) ==
    /\ Abs(a.centerPoint.x - b.centerPoint.x) <= a.halfDimension.x + b.halfDimension.x
    /\ Abs(a.centerPoint.y - b.centerPoint.y) <= a.halfDimension.y + b.halfDimension.y

(***************************************************************************)
(* Nodes.                                                                  *)
(***************************************************************************)
NULL == 0

Root == 1

\* The bucket capacity, a compile-time constant of the header: the variable
\* capacity holds the value the program was built with.
QT_NODE_MAX_CAPACITY == capacity

\* The constructor: a leaf with an empty bucket and four null children.
PointQuadTree(_boundaries) ==
    [boundaries |-> _boundaries, points |-> <<>>,
     northWest |-> NULL, northEast |-> NULL, southEast |-> NULL, southWest |-> NULL]

\* Subdivide with the northEast child given the northWest child's centre.
Subdivide_NorthEastAtNorthWest(h, n) ==
    LET b == h[n].boundaries
        children_size == Vector2(b.halfDimension.x, b.halfDimension.y)
        cSW == Vector2(b.centerPoint.x - children_size.x, b.centerPoint.y - children_size.y)
        cSE == Vector2(b.centerPoint.x + children_size.x, b.centerPoint.y - children_size.y)
        cNW == Vector2(b.centerPoint.x - children_size.x, b.centerPoint.y + children_size.y)
        h1 == [Append(h, PointQuadTree(Rect_AABB(cSW, children_size)))
                  EXCEPT ![n].southWest = Len(h) + 1]
        h2 == [Append(h1, PointQuadTree(Rect_AABB(cSE, children_size)))
                  EXCEPT ![n].southEast = Len(h1) + 1]
        h3 == [Append(h2, PointQuadTree(Rect_AABB(cNW, children_size)))
                  EXCEPT ![n].northWest = Len(h2) + 1]
        h4 == [Append(h3, PointQuadTree(Rect_AABB(cNW, children_size)))
                  EXCEPT ![n].northEast = Len(h3) + 1]
    IN  h4

\* Subdivide that moves the node's bucket into the new southWest child.
Subdivide_MoveBucket(h, n) ==
    LET b == h[n].boundaries
        children_size == Vector2(b.halfDimension.x, b.halfDimension.y)
        cSW == Vector2(b.centerPoint.x - children_size.x, b.centerPoint.y - children_size.y)
        cSE == Vector2(b.centerPoint.x + children_size.x, b.centerPoint.y - children_size.y)
        cNW == Vector2(b.centerPoint.x - children_size.x, b.centerPoint.y + children_size.y)
        cNE == Vector2(b.centerPoint.x + children_size.x, b.centerPoint.y + children_size.y)
        h1 == [Append(h, PointQuadTree(Rect_AABB(cSW, children_size)))
                  EXCEPT ![n].southWest = Len(h) + 1]
        h2 == [Append(h1, PointQuadTree(Rect_AABB(cSE, children_size)))
                  EXCEPT ![n].southEast = Len(h1) + 1]
        h3 == [Append(h2, PointQuadTree(Rect_AABB(cNW, children_size)))
                  EXCEPT ![n].northWest = Len(h2) + 1]
        h4 == [Append(h3, PointQuadTree(Rect_AABB(cNE, children_size)))
                  EXCEPT ![n].northEast = Len(h3) + 1]
    IN  [h4 EXCEPT ![n].points = <<>>, ![Len(h) + 1].points = h[n].points]

\* Subdivide on node n: four `new` in the order southWest, southEast,
\* northWest, northEast.  children_size is the node's own halfDimension
\* (line 99 does not halve it).  Lines 104-110 write `children_size` where
\* a component is meant: each axis takes the component of that axis.
Subdivide(h, n) ==
    LET b == h[n].boundaries
        children_size == Vector2(b.halfDimension.x, b.halfDimension.y)
        cSW == Vector2(b.centerPoint.x - children_size.x, b.centerPoint.y - children_size.y)
        cSE == Vector2(b.centerPoint.x + children_size.x, b.centerPoint.y - children_size.y)
        cNW == Vector2(b.centerPoint.x - children_size.x, b.centerPoint.y + children_size.y)
        cNE == Vector2(b.centerPoint.x + children_size.x, b.centerPoint.y + children_size.y)
        h1 == [Append(h, PointQuadTree(Rect_AABB(cSW, children_size)))
                  EXCEPT ![n].southWest = Len(h) + 1]
        h2 == [Append(h1, PointQuadTree(Rect_AABB(cSE, children_size)))
                  EXCEPT ![n].southEast = Len(h1) + 1]
        h3 == [Append(h2, PointQuadTree(Rect_AABB(cNW, children_size)))
                  EXCEPT ![n].northWest = Len(h2) + 1]
        h4 == [Append(h3, PointQuadTree(Rect_AABB(cNE, children_size)))
                  EXCEPT ![n].northEast = Len(h3) + 1]
    IN  h4

\* Insert that splits a full leaf before it tests the point against the
\* node's boundaries.
RECURSIVE Insert_SubdivideFirst(_, _, _)
Insert_SubdivideFirst(h, n, d) ==
    LET h0 == IF Len(h[n].points) >= QT_NODE_MAX_CAPACITY /\ h[n].northWest = NULL
              THEN Subdivide(h, n) ELSE h
    IN  IF ~contains(h[n].boundaries, d.point)
        THEN [heap |-> h0, ret |-> FALSE]
        ELSE IF Len(h[n].points) < QT_NODE_MAX_CAPACITY
        THEN [heap |-> [h EXCEPT ![n].points = Append(@, d)], ret |-> TRUE]
        ELSE
          LET r1 == Insert_SubdivideFirst(h0, h0[n].northWest, d)
              r2 == Insert_SubdivideFirst(r1.heap, r1.heap[n].northEast, d)
              r3 == Insert_SubdivideFirst(r2.heap, r2.heap[n].southEast, d)
              r4 == Insert_SubdivideFirst(r3.heap, r3.heap[n].southWest, d)
          IN  IF r1.ret THEN r1
              ELSE IF r2.ret THEN r2
              ELSE IF r3.ret THEN r3
              ELSE IF r4.ret THEN r4
              ELSE [heap |-> r4.heap, ret |-> FALSE]

\* Insert without the test `northWest == nullptr`: a full node is
\* subdivided on every Insert that reaches it.
RECURSIVE Insert_AlwaysSubdivide(_, _, _)
Insert_AlwaysSubdivide(h, n, d) ==
    IF ~contains(h[n].boundaries, d.point)
    THEN [heap |-> h, ret |-> FALSE]
    ELSE IF Len(h[n].points) < QT_NODE_MAX_CAPACITY
    THEN [heap |-> [h EXCEPT ![n].points = Append(@, d)], ret |-> TRUE]
    ELSE
      LET h0 == Subdivide(h, n)
          r1 == Insert_AlwaysSubdivide(h0, h0[n].northWest, d)
          r2 == Insert_AlwaysSubdivide(r1.heap, r1.heap[n].northEast, d)
          r3 == Insert_AlwaysSubdivide(r2.heap, r2.heap[n].southEast, d)
          r4 == Insert_AlwaysSubdivide(r3.heap, r3.heap[n].southWest, d)
      IN  IF r1.ret THEN r1
          ELSE IF r2.ret THEN r2
          ELSE IF r3.ret THEN r3
          ELSE IF r4.ret THEN r4
          ELSE [heap |-> r4.heap, ret |-> FALSE]

\* Insert that calls Insert on all four children and returns whether any
\* of them succeeded, instead of returning at the first success.
RECURSIVE Insert_AllChildren(_, _, _)
Insert_AllChildren(h, n, d) ==
    IF ~contains(h[n].boundaries, d.point)
    THEN [heap |-> h, ret |-> FALSE]
    ELSE IF Len(h[n].points) < QT_NODE_MAX_CAPACITY
    THEN [heap |-> [h EXCEPT ![n].points = Append(@, d)], ret |-> TRUE]
    ELSE
      LET h0 == IF h[n].northWest = NULL THEN Subdivide(h, n) ELSE h
          r1 == Insert_AllChildren(h0, h0[n].northWest, d)
          r2 == Insert_AllChildren(r1.heap, r1.heap[n].northEast, d)
          r3 == Insert_AllChildren(r2.heap, r2.heap[n].southEast, d)
          r4 == Insert_AllChildren(r3.heap, r3.heap[n].southWest, d)
      IN  [heap |-> r4.heap, ret |-> r1.ret \/ r2.ret \/ r3.ret \/ r4.ret]

\* Insert without the test of the point against the node's boundaries.
RECURSIVE Insert_NoBoundsCheck(_, _, _)
Insert_NoBoundsCheck(h, n, d) ==
    IF Len(h[n].points) < QT_NODE_MAX_CAPACITY
    THEN [heap |-> [h EXCEPT ![n].points = Append(@, d)], ret |-> TRUE]
    ELSE
      LET h0 == IF h[n].northWest = NULL THEN Subdivide(h, n) ELSE h
          r1 == Insert_NoBoundsCheck(h0, h0[n].northWest, d)
      IN  r1

\* Insert with `<=` for `<` in the test of the bucket's size.
RECURSIVE Insert_OffByOne(_, _, _)
Insert_OffByOne(h, n, d) ==
    IF ~contains(h[n].boundaries, d.point)
    THEN [heap |-> h, ret |-> FALSE]
    ELSE IF Len(h[n].points) <= QT_NODE_MAX_CAPACITY
    THEN [heap |-> [h EXCEPT ![n].points = Append(@, d)], ret |-> TRUE]
    ELSE
      LET h0 == IF h[n].northWest = NULL THEN Subdivide(h, n) ELSE h
          r1 == Insert_OffByOne(h0, h0[n].northWest, d)
          r2 == Insert_OffByOne(r1.heap, r1.heap[n].northEast, d)
          r3 == Insert_OffByOne(r2.heap, r2.heap[n].southEast, d)
          r4 == Insert_OffByOne(r3.heap, r3.heap[n].southWest, d)
      IN  IF r1.ret THEN r1
          ELSE IF r2.ret THEN r2
          ELSE IF r3.ret THEN r3
          ELSE IF r4.ret THEN r4
          ELSE [heap |-> r4.heap, ret |-> FALSE]

\* Insert that puts the entry at the front of the bucket instead of its end.
RECURSIVE Insert_PushFront(_, _, _)
Insert_PushFront(h, n, d) ==
    IF ~contains(h[n].boundaries, d.point)
    THEN [heap |-> h, ret |-> FALSE]
    ELSE IF Len(h[n].points) < QT_NODE_MAX_CAPACITY
    THEN [heap |-> [h EXCEPT ![n].points = <<d>> \o @], ret |-> TRUE]
    ELSE
      LET h0 == IF h[n].northWest = NULL THEN Subdivide(h, n) ELSE h
          r1 == Insert_PushFront(h0, h0[n].northWest, d)
          r2 == Insert_PushFront(r1.heap, r1.heap[n].northEast, d)
          r3 == Insert_PushFront(r2.heap, r2.heap[n].southEast, d)
          r4 == Insert_PushFront(r3.heap, r3.heap[n].southWest, d)
      IN  IF r1.ret THEN r1
          ELSE IF r2.ret THEN r2
          ELSE IF r3.ret THEN r3
          ELSE IF r4.ret THEN r4
          ELSE [heap |-> r4.heap, ret |-> FALSE]

\* Insert on node n.  The result is the heap the call leaves and the
\* boolean it returns.
RECURSIVE Insert(_, _, _)
Insert(h, n, d) ==
    IF ~contains(h[n].boundaries, d.point)
    THEN [heap |-> h, ret |-> FALSE]
    ELSE IF Len(h[n].points) < QT_NODE_MAX_CAPACITY
    THEN [heap |-> [h EXCEPT ![n].points = Append(@, d)], ret |-> TRUE]
    ELSE
      LET h0 == IF h[n].northWest = NULL THEN Subdivide(h, n) ELSE h
          r1 == Insert(h0, h0[n].northWest, d)
          r2 == Insert(r1.heap, r1.heap[n].northEast, d)
          r3 == Insert(r2.heap, r2.heap[n].southEast, d)
          r4 == Insert(r3.heap, r3.heap[n].southWest, d)
      IN  IF r1.ret THEN r1
          ELSE IF r2.ret THEN r2
          ELSE IF r3.ret THEN r3
          ELSE IF r4.ret THEN r4
          ELSE [heap |-> r4.heap, ret |-> FALSE]

\* The entries of a bucket that the range contains, in bucket order.
RECURSIVE ScanPoints(_, _)
ScanPoints(points, rng) ==
    IF points = <<>> THEN <<>>
    ELSE (IF ContainsPoint(rng, Head(points)) THEN <<Head(points)>> ELSE <<>>)
         \o ScanPoints(Tail(points), rng)

\* The query with the recursion into southWest left out.
RECURSIVE QueryRange_SkipSouthWest(_, _, _, _)
QueryRange_SkipSouthWest(h, n, rng, result) ==
    IF ~Intersects_AABB(h[n].boundaries, rng) THEN result
    ELSE
      LET q0 == result \o ScanPoints(h[n].points, rng)
      IN  IF h[n].northEast = NULL THEN q0
          ELSE
            LET q1 == QueryRange_SkipSouthWest(h, h[n].northEast, rng, q0)
                q2 == QueryRange_SkipSouthWest(h, h[n].northWest, rng, q1)
                q3 == QueryRange_SkipSouthWest(h, h[n].southEast, rng, q2)
            IN  q3

\* QueryRange_private_recursive on node n: the result vector it leaves.
RECURSIVE QueryRange_private_recursive(_, _, _, _)
QueryRange_private_recursive(h, n, rng, result) ==
    IF ~Intersects_AABB(h[n].boundaries, rng) THEN result
    ELSE
      LET q0 == result \o ScanPoints(h[n].points, rng)
      IN  IF h[n].northEast = NULL THEN q0
          ELSE
            LET q1 == QueryRange_private_recursive(h, h[n].northEast, rng, q0)
                q2 == QueryRange_private_recursive(h, h[n].northWest, rng, q1)
                q3 == QueryRange_private_recursive(h, h[n].southEast, rng, q2)
                q4 == QueryRange_private_recursive(h, h[n].southWest, rng, q3)
            IN  q4

\* QueryRange that starts from the result vector of the previous call
\* instead of an empty one.
QueryRange_Accumulate(h, rng) == QueryRange_private_recursive(h, Root, rng, results)

\* QueryRange: a fresh result vector, filled by the recursion from the root.
QueryRange(h, rng) == QueryRange_private_recursive(h, Root, rng, <<>>)

(***************************************************************************)
(* Inputs.                                                                 *)
(***************************************************************************)
RootBoundaries == Rect_AABB(Vector2(0, 0), Vector2(1, 1))

\* The coordinates of the root's region and one unit beyond its upper edges.
Coord == (RootBoundaries.centerPoint.x - RootBoundaries.halfDimension.x) ..
         (RootBoundaries.centerPoint.x + RootBoundaries.halfDimension.x + 1)

Points == {Vector2(x, y) : x \in Coord, y \in Coord}

Payloads == {"a"}

\* Data_Node<T>: a point with its payload.
Data_Node == {[point |-> p, value |-> v] : p \in Points, v \in Payloads}

Ranges == {Rect_AABB(c, Vector2(hd, hd)) : c \in Points, hd \in 0 .. MaxRangeHalf}

NoData == [point |-> Vector2(0, 0), value |-> "none"]

NoRange == Rect_AABB(Vector2(0, 0), Vector2(0, 0))

\* Number of entries stored in the whole tree.
RECURSIVE SumLen(_, _)
SumLen(h, i) == IF i = 0 THEN 0 ELSE Len(h[i].points) + SumLen(h, i - 1)

TotalPoints(h) == SumLen(h, Len(h))

(***************************************************************************)
(* The state machine: the root is constructed, then the caller calls       *)
(* Insert and QueryRange on it.                                            *)
(***************************************************************************)
Threads == {1, 2}

\* A thread that has not called anything yet.
IdleThread ==
    [status |-> "idle", fn |-> "none", d |-> NoData, rng |-> NoRange,
     stack |-> <<>>, ret |-> FALSE, result |-> <<>>, h0 |-> <<>>,
     view |-> <<>>, stale |-> FALSE]

Init ==
    /\ capacity \in 1 .. MaxCapacity
    /\ accepted = [d \in Data_Node |-> 0]
    /\ heap = <<PointQuadTree(RootBoundaries)>>
    /\ op = "new"
    /\ data = NoData
    /\ ret = TRUE
    /\ range = NoRange
    /\ results = <<>>
    /\ thr = [t \in Threads |-> IdleThread]
    /\ overlap = FALSE
    /\ midSplit = FALSE

InsertCall(d) ==
    LET r == Insert(heap, Root, d)
    IN  /\ heap' = r.heap
        /\ ret' = r.ret
        /\ op' = "Insert"
        /\ data' = d
        /\ range' = NoRange
        /\ results' = <<>>
        /\ accepted' = IF r.ret THEN [accepted EXCEPT ![d] = @ + 1] ELSE accepted
        /\ UNCHANGED capacity

QueryRangeCall(rng) ==
    /\ results' = QueryRange(heap, rng)
    /\ range' = rng
    /\ op' = "QueryRange"
    /\ data' = NoData
    /\ ret' = TRUE
    /\ UNCHANGED <<capacity, heap, accepted>>

DoInsert ==
    /\ TotalPoints(heap) < MaxInserts
    /\ \E d \in Data_Node : InsertCall(d)

DoInsertQ ==
    /\ TotalPoints(heap) < MaxInsertsQ
    /\ \E d \in Data_Node : InsertCall(d)

DoQueryRange == \E rng \in Ranges : QueryRangeCall(rng)

\* Insert calls only.
Next == DoInsert /\ UNCHANGED cvars

Spec == Init /\ [][Next]_vars

\* Insert and QueryRange calls, on a tree built with the smallest capacity.
InitQ == Init /\ capacity = 1

NextQ == (DoInsertQ \/ DoQueryRange) /\ UNCHANGED cvars

SpecQ == InitQ /\ [][NextQ]_vars

(***************************************************************************)
(* The shape of a heap.                                                    *)
(***************************************************************************)
Nodes(h) == 1 .. Len(h)

\* The non-null child pointers of node n.
ChildrenOf(h, n) ==
    {h[n].northWest, h[n].northEast, h[n].southEast, h[n].southWest} \ {NULL}

\* Node n and its descendants.
RECURSIVE SubtreeOf(_, _)
SubtreeOf(h, n) == {n} \cup UNION {SubtreeOf(h, c) : c \in ChildrenOf(h, n)}

\* How often entry d occurs in the sequence s.
RECURSIVE Count(_, _)
Count(s, d) ==
    IF s = <<>> THEN 0 ELSE (IF Head(s) = d THEN 1 ELSE 0) + Count(Tail(s), d)

\* The nodes reachable from the root.
Reachable(h) == SubtreeOf(h, Root)

(***************************************************************************)
(* C1.  After any sequence of Insert calls, for every query range Q,       *)
(* QueryRange(Q) returns exactly the multiset of the entries whose Insert  *)
(* returned true and whose point lies inside Q: every returned entry lies  *)
(* inside Q and was accepted, and every accepted entry inside Q is         *)
(* returned exactly as often as it was accepted.                           *)
(***************************************************************************)
C1_QueryExact ==
    \A Q \in Ranges :
        LET res == QueryRange(heap, Q)
        IN  /\ \A i \in 1 .. Len(res) :
                   /\ ContainsPoint(Q, res[i])
                   /\ res[i] \in Data_Node
                   /\ accepted[res[i]] > 0
            /\ \A d \in Data_Node :
                   (accepted[d] > 0 /\ ContainsPoint(Q, d)) =>
                       Count(res, d) = accepted[d]

\* A tree whose root has split, and a range whose query returns an entry of
\* the root's bucket and an entry of a child's bucket and leaves one out.
C1_Witness ==
    /\ op = "Insert"
    /\ heap[Root].northWest # NULL
    /\ \E Q \in Ranges :
          LET res == QueryRange(heap, Q)
          IN  /\ Len(res) > Len(ScanPoints(heap[Root].points, Q))
              /\ ScanPoints(heap[Root].points, Q) # <<>>
              /\ Len(res) < TotalPoints(heap)

(***************************************************************************)
(* Vocabulary of the claims.                                               *)
(***************************************************************************)
\* The four child pointers of node n, in the order Insert tries them.
ChildPointers(h, n) ==
    <<h[n].northWest, h[n].northEast, h[n].southEast, h[n].southWest>>

HasChildren(h, n) == ChildPointers(h, n) # <<NULL, NULL, NULL, NULL>>

\* The nodes of heap h whose child pointers differ in heap h2: the nodes
\* the step from h to h2 has split.
SplitNodes(h, h2) == {n \in Nodes(h) : ChildPointers(h2, n) # ChildPointers(h, n)}

\* The bucket of node n in heap h, empty for a node not yet allocated.
BucketOf(h, n) == IF n \in Nodes(h) THEN h[n].points ELSE <<>>

\* The nodes whose bucket differs between the heaps h and h2.
ChangedBuckets(h, h2) == {n \in Nodes(h2) : h2[n].points # BucketOf(h, n)}

\* The first child of the internal node n, in the order northWest,
\* northEast, southEast, southWest, whose region contains p (NULL if none).
FirstChild(h, n, p) ==
    IF contains(h[h[n].northWest].boundaries, p) THEN h[n].northWest
    ELSE IF contains(h[h[n].northEast].boundaries, p) THEN h[n].northEast
    ELSE IF contains(h[h[n].southEast].boundaries, p) THEN h[n].southEast
    ELSE IF contains(h[h[n].southWest].boundaries, p) THEN h[n].southWest
    ELSE NULL

\* The leaf reached from node n by descending, at every internal node,
\* into the first child whose region contains p (NULL if there is none).
RECURSIVE LeafFor(_, _, _)
LeafFor(h, n, p) ==
    IF n = NULL THEN NULL
    ELSE IF h[n].northWest = NULL THEN n
    ELSE LeafFor(h, FirstChild(h, n, p), p)

(***************************************************************************)
(* C2.  Whenever Insert returns false the tree is unchanged (no bucket     *)
(* has gained an entry, no node has gained children); in particular an     *)
(* Insert on the root of a point outside the root's region returns false   *)
(* and leaves the tree as it was.                                          *)
(***************************************************************************)
C2_FalseLeavesTree ==
    [][op' = "Insert" =>
          /\ (ret' = FALSE => heap' = heap /\ accepted' = accepted)
          /\ (~contains(heap[Root].boundaries, data'.point) =>
                  ret' = FALSE /\ heap' = heap)]_vars

\* An Insert has returned false on a tree that stores entries and whose
\* root has split.
C2_Witness ==
    /\ op = "Insert"
    /\ ret = FALSE
    /\ HasChildren(heap, Root)
    /\ TotalPoints(heap) > QT_NODE_MAX_CAPACITY

(***************************************************************************)
(* C3.  Insert on the root returns false only when the point lies outside  *)
(* the root's region: an Insert of a point that the root's region          *)
(* contains returns true, whatever the tree.                               *)
(***************************************************************************)
C3_FalseOnlyOutside ==
    (op = "Insert" /\ ret = FALSE) => ~contains(heap[Root].boundaries, data.point)

\* An Insert of a point inside the root's region has returned true after
\* being delegated through two levels of children.
C3_Witness ==
    /\ op = "Insert"
    /\ ret = TRUE
    /\ contains(heap[Root].boundaries, data.point)
    /\ \E c \in ChildrenOf(heap, Root) :
          \E g \in ChildrenOf(heap, c) :
              /\ heap[g].points # <<>>
              /\ heap[g].points[Len(heap[g].points)] = data

(***************************************************************************)
(* C4.  A node splits only when an Insert of a point inside its region     *)
(* reaches it while it is a leaf whose bucket holds exactly                *)
(* QT_NODE_MAX_CAPACITY entries, and one Insert call splits at most one    *)
(* node.  Hence the Insert that stores entry QT_NODE_MAX_CAPACITY + 1      *)
(* splits the root and nothing else: the root's bucket keeps the first     *)
(* QT_NODE_MAX_CAPACITY entries and the new entry is the only entry of     *)
(* one of the root's four children.                                        *)
(***************************************************************************)
C4_SplitOnlyFullLeaf ==
    [][op' = "Insert" =>
          LET S == SplitNodes(heap, heap')
          IN  /\ Cardinality(S) <= 1
              /\ Len(heap') = Len(heap) + 4 * Cardinality(S)
              /\ \A n \in S :
                    /\ ~HasChildren(heap, n)
                    /\ Len(heap[n].points) = QT_NODE_MAX_CAPACITY
                    /\ contains(heap[n].boundaries, data'.point)
                    /\ n \in Reachable(heap)
              /\ (ret' /\ TotalPoints(heap') = QT_NODE_MAX_CAPACITY + 1 =>
                    /\ S = {Root}
                    /\ heap'[Root].points = heap[Root].points
                    /\ Len(heap'[Root].points) = QT_NODE_MAX_CAPACITY
                    /\ Cardinality(ChildrenOf(heap', Root)) = 4
                    /\ \E c \in ChildrenOf(heap', Root) :
                          /\ heap'[c].points = <<data'>>
                          /\ \A o \in ChildrenOf(heap', Root) \ {c} :
                                heap'[o].points = <<>>)]_vars

\* An Insert has split a child of the already split root: the tree holds
\* nine nodes, which takes two splits, and the last entry went below a child.
C4_Witness ==
    /\ op = "Insert"
    /\ ret = TRUE
    /\ Len(heap) = 9
    /\ \E c \in ChildrenOf(heap, Root) :
          /\ HasChildren(heap, c)
          /\ \E g \in ChildrenOf(heap, c) : heap[g].points = <<data>>

(***************************************************************************)
(* C5.  For every node that has split, each child region has half-extents  *)
(* equal to half the parent's half-extents and a centre equal to the       *)
(* parent's centre offset by plus or minus that halved extent on each      *)
(* axis, so that every child region lies inside the parent region.         *)
(***************************************************************************)
C5_ChildrenQuarterParent ==
    \A n \in Nodes(heap) :
        \A c \in ChildrenOf(heap, n) :
            LET pb == heap[n].boundaries
                cb == heap[c].boundaries
            IN  /\ 2 * cb.halfDimension.x = pb.halfDimension.x
                /\ 2 * cb.halfDimension.y = pb.halfDimension.y
                /\ Abs(cb.centerPoint.x - pb.centerPoint.x) = cb.halfDimension.x
                /\ Abs(cb.centerPoint.y - pb.centerPoint.y) = cb.halfDimension.y
                /\ \A p \in Points : contains(cb, p) => contains(pb, p)

(***************************************************************************)
(* C6.  For every node that has split and every point that the node's      *)
(* region contains, exactly one of the four child regions contains that    *)
(* point, under the containment test Insert uses.                          *)
(***************************************************************************)
C6_ExactlyOneChildContains ==
    \A n \in Nodes(heap) :
        HasChildren(heap, n) =>
            \A p \in Points :
                contains(heap[n].boundaries, p) =>
                    Cardinality({c \in ChildrenOf(heap, n) :
                                     contains(heap[c].boundaries, p)}) = 1

C8_FirstContainingChild ==
    [][op' = "Insert" /\ ret' =>
          LET m == LeafFor(heap', Root, data'.point)
          IN  /\ m # NULL
              /\ ChangedBuckets(heap, heap') = {m}
              /\ heap'[m].points = Append(BucketOf(heap, m), data')]_vars

\* An Insert has stored, two levels below the root, a point that several
\* children of the root contain.
C8_Witness ==
    /\ op = "Insert"
    /\ ret = TRUE
    /\ Cardinality({c \in ChildrenOf(heap, Root) :
                        contains(heap[c].boundaries, data.point)}) > 1
    /\ \E c \in ChildrenOf(heap, Root) :
          \E g \in ChildrenOf(heap, c) :
              /\ heap[g].points = <<data>>
              /\ g # heap[c].northWest

(***************************************************************************)
(* C9.  For every node n and every entry stored in the bucket of n or of   *)
(* a descendant of n, the region of n contains the entry's point.          *)
(***************************************************************************)
C9_SubtreeEntriesInRegion ==
    \A n \in Nodes(heap) :
        \A m \in SubtreeOf(heap, n) :
            \A i \in 1 .. Len(heap[m].points) :
                contains(heap[n].boundaries, heap[m].points[i].point)

\* An entry is stored two levels below the root.
C9_Witness ==
    \E c \in ChildrenOf(heap, Root) :
        \E g \in ChildrenOf(heap, c) : heap[g].points # <<>>

(***************************************************************************)
(* C10.  Every node has either no children or all four, and every bucket   *)
(* holds at most QT_NODE_MAX_CAPACITY entries; so the test of northWest    *)
(* in Insert and the test of northEast in the query agree on which nodes   *)
(* are leaves.                                                             *)
(***************************************************************************)
C10_AllOrNoChildren ==
    \A n \in Nodes(heap) :
        /\ \/ ChildPointers(heap, n) = <<NULL, NULL, NULL, NULL>>
           \/ /\ \A i \in 1 .. 4 : ChildPointers(heap, n)[i] \in Nodes(heap)
              /\ Cardinality(ChildrenOf(heap, n)) = 4
        /\ (heap[n].northWest = NULL) = (heap[n].northEast = NULL)
        /\ Len(heap[n].points) <= QT_NODE_MAX_CAPACITY

\* The root has split and one of its children, still a leaf, is full.
C10_Witness ==
    /\ HasChildren(heap, Root)
    /\ \E c \in ChildrenOf(heap, Root) :
          /\ ~HasChildren(heap, c)
          /\ Len(heap[c].points) = QT_NODE_MAX_CAPACITY

(***************************************************************************)
(* C11.  The leaf-to-internal transition is irreversible and happens at    *)
(* most once per node: a node that has children keeps the same four child  *)
(* nodes in every later state, no node is ever removed, and no node's      *)
(* region changes after construction.                                      *)
(***************************************************************************)
C11_SplitIrreversible ==
    [][/\ Len(heap') >= Len(heap)
       /\ \A n \in Nodes(heap) :
             /\ heap'[n].boundaries = heap[n].boundaries
             /\ HasChildren(heap, n) =>
                   ChildPointers(heap', n) = ChildPointers(heap, n)]_vars

\* An Insert has been delegated through the split root, which still has
\* the children it got: they are the nodes 2..5 of the first Subdivide.
C11_Witness ==
    /\ op = "Insert"
    /\ ret = TRUE
    /\ TotalPoints(heap) >= QT_NODE_MAX_CAPACITY + 2
    /\ ChildrenOf(heap, Root) = 2 .. 5

(***************************************************************************)
(* C12.  Entries are never moved or removed: a split installs four new     *)
(* leaf children with empty buckets and leaves the splitting node's bucket *)
(* unchanged, every bucket only grows by appending at its end, and the     *)
(* bucket of a node that has split never changes again.                    *)
(***************************************************************************)
IsPrefix(s, t) == Len(s) <= Len(t) /\ SubSeq(t, 1, Len(s)) = s

C12_EntriesStay ==
    [][/\ \A n \in Nodes(heap) :
             ~HasChildren(heap, n) =>
                 LET h2 == Subdivide(heap, n)
                 IN  /\ Len(h2) = Len(heap) + 4
                     /\ \A m \in Nodes(heap) : h2[m].points = heap[m].points
                     /\ \A m \in Nodes(h2) \ Nodes(heap) :
                           h2[m].points = <<>> /\ ~HasChildren(h2, m)
       /\ op' = "Insert" =>
             /\ \A n \in Nodes(heap) :
                   /\ n \in Nodes(heap')
                   /\ IsPrefix(heap[n].points, heap'[n].points)
                   /\ (HasChildren(heap', n) => heap'[n].points = heap[n].points)
             /\ \A m \in Nodes(heap') \ Nodes(heap) :
                   /\ ~HasChildren(heap', m)
                   /\ heap'[m].points \in {<<>>, <<data'>>}]_vars

\* The root and one of its children have split and both still hold a full
\* bucket, while an entry sits below that child.
C12_Witness ==
    /\ op = "Insert"
    /\ Len(heap[Root].points) = QT_NODE_MAX_CAPACITY
    /\ \E c \in ChildrenOf(heap, Root) :
          /\ HasChildren(heap, c)
          /\ Len(heap[c].points) = QT_NODE_MAX_CAPACITY
          /\ \E g \in ChildrenOf(heap, c) : heap[g].points # <<>>

(***************************************************************************)
(* C16.  Between Insert calls a node that has children has a bucket of     *)
(* exactly QT_NODE_MAX_CAPACITY entries, never fewer; so the test of the   *)
(* bucket's size alone keeps Insert from appending to an internal node.    *)
(***************************************************************************)
C16_InternalBucketFull ==
    \A n \in Nodes(heap) :
        HasChildren(heap, n) => Len(heap[n].points) = QT_NODE_MAX_CAPACITY

\* An Insert of a point inside the split root's region went past the
\* root's full bucket into a child.
C16_Witness ==
    /\ op = "Insert"
    /\ ret = TRUE
    /\ HasChildren(heap, Root)
    /\ Len(heap[Root].points) = QT_NODE_MAX_CAPACITY
    /\ \E c \in ChildrenOf(heap, Root) :
          /\ heap[c].points # <<>>
          /\ heap[c].points[Len(heap[c].points)] = data

\* ---------------------------------------------------------------------
\* Insert and QueryRange_private_recursive statement by statement.
\*
\* A frame is one activation of a member function on node `node`; pc names
\* the source line of the statement it executes next.  Each statement that
\* reads or writes a node is one step.  Returning touches no node, so a
\* return and the tests the callers make on the returned value (lines
\* 76-79, 82) are part of the step that returns.
\*
\* The source has no lock and no atomic variable.  A read of a member
\* that another thread's call has written since the reader's call began
\* is a data race, which is undefined: the read yields either the value
\* the reader could already see (thr[t].view) or the value now in the
\* heap, and the reader never goes back to an older value of a member it
\* has read.  A thread always sees its own writes, so a call that runs
\* alone reads the heap.
\* ---------------------------------------------------------------------

Frame(fn, n, pc) == [fn |-> fn, node |-> n, pc |-> pc]

Top(t) == thr[t].stack[Len(thr[t].stack)]

At(t, fn, pc) ==
    /\ thr[t].status = "running"
    /\ Top(t).fn = fn
    /\ Top(t).pc = pc

\* The values a read of member f of node n by thread t can yield.
Rd(t, n, f) == {thr[t].view[n][f], heap[n][f]}

\* Thread record th after its call has written v to member f of node n.
Wrote(th, n, f, v) == [th EXCEPT !.view = [@ EXCEPT ![n] = [@ EXCEPT ![f] = v]]]

\* Thread record th after its call has read v in member f of node n;
\* stale records that a read has yielded a value the heap no longer holds.
Saw(th, n, f, v) ==
    [Wrote(th, n, f, v) EXCEPT !.stale = @ \/ v # heap[n][f]]

\* Thread record th with the pc of its top frame replaced.
Goto(th, pc) == [th EXCEPT !.stack = [@ EXCEPT ![Len(@)].pc = pc]]

\* Thread record th after its call stopped with the given status.
Stopped(th, status) == [th EXCEPT !.status = status, !.view = <<>>]

\* The label at which a caller continues after the delegation it is
\* waiting for has returned false.
AfterFalse(pc) ==
    CASE pc = "R76" -> "I77"
      [] pc = "R77" -> "I78"
      [] pc = "R78" -> "I79"
      [] OTHER -> "I82"

\* The top frame of stk returns v from Insert: the caller returns true
\* when v is true, goes on with the next child otherwise, and returns
\* false after the last one (line 82).
RECURSIVE ReturnInsert(_, _)
ReturnInsert(stk, v) ==
    LET rest == SubSeq(stk, 1, Len(stk) - 1)
    IN IF rest = <<>> THEN [stack |-> rest, ret |-> v]
       ELSE IF v THEN ReturnInsert(rest, TRUE)
       ELSE IF AfterFalse(rest[Len(rest)].pc) = "I82"
       THEN ReturnInsert(rest, FALSE)
       ELSE [stack |-> [rest EXCEPT ![Len(rest)].pc = AfterFalse(@)],
             ret |-> v]

\* The top frame of stk returns from QueryRange_private_recursive; a
\* caller whose last recursion (line 168) has returned returns as well.
RECURSIVE ReturnQuery(_)
ReturnQuery(stk) ==
    LET rest == SubSeq(stk, 1, Len(stk) - 1)
    IN IF rest = <<>> THEN rest
       ELSE IF rest[Len(rest)].pc = "Q169" THEN ReturnQuery(rest)
       ELSE rest

\* Thread record th after its Insert frame on top has returned v.
AfterReturnInsert(th, v) ==
    LET r == ReturnInsert(th.stack, v)
        th1 == [th EXCEPT !.stack = r.stack, !.ret = r.ret]
    IN IF r.stack = <<>> THEN Stopped(th1, "done") ELSE th1

AfterReturnQuery(th) ==
    LET r == ReturnQuery(th.stack)
        th1 == [th EXCEPT !.stack = r]
    IN IF r = <<>> THEN Stopped(th1, "done") ELSE th1

\* What a step of a running call leaves alone.
StepFrame == UNCHANGED <<capacity, op, data, ret, range, results, overlap>>

StartInsert(t, d) ==
    /\ thr[t].status \in {"idle", "done"}
    /\ thr' = [thr EXCEPT ![t] =
                  [status |-> "running", fn |-> "Insert", d |-> d,
                   rng |-> NoRange,
                   stack |-> <<Frame("Insert", Root, "I60")>>,
                   ret |-> FALSE, result |-> <<>>, h0 |-> heap,
                   view |-> heap, stale |-> FALSE]]
    /\ overlap' = (overlap \/ \E u \in Threads \ {t} : thr[u].status = "running")
    /\ op' = "start"
    /\ data' = NoData
    /\ ret' = TRUE
    /\ range' = NoRange
    /\ results' = <<>>
    /\ UNCHANGED <<capacity, heap, accepted, midSplit>>

StartQueryRange(t, rng) ==
    /\ thr[t].status \in {"idle", "done"}
    /\ thr' = [thr EXCEPT ![t] =
                  [status |-> "running", fn |-> "QueryRange", d |-> NoData,
                   rng |-> rng,
                   stack |-> <<Frame("QueryRange", Root, "Q149")>>,
                   ret |-> FALSE, result |-> <<>>, h0 |-> heap,
                   view |-> heap, stale |-> FALSE]]
    /\ overlap' = (overlap \/ \E u \in Threads \ {t} : thr[u].status = "running")
    /\ op' = "start"
    /\ data' = NoData
    /\ ret' = TRUE
    /\ range' = NoRange
    /\ results' = <<>>
    /\ UNCHANGED <<capacity, heap, accepted, midSplit>>

\* Line 60: if (!boundaries.contains(data.point)) return false;
\* boundaries is written by the constructor only.
I60(t) ==
    /\ At(t, "Insert", "I60")
    /\ thr' = [thr EXCEPT ![t] =
                  IF contains(heap[Top(t).node].boundaries, thr[t].d.point)
                  THEN Goto(@, "I65")
                  ELSE AfterReturnInsert(@, FALSE)]
    /\ UNCHANGED <<heap, accepted, midSplit>>
    /\ StepFrame

\* Line 65 with <= for <.
I65_OffByOne(t) ==
    /\ At(t, "Insert", "I65")
    /\ \E pts \in Rd(t, Top(t).node, "points") :
          thr' = [thr EXCEPT ![t] =
                     Goto(Saw(@, Top(t).node, "points", pts),
                          IF Len(pts) <= QT_NODE_MAX_CAPACITY
                          THEN "I66" ELSE "I73")]
    /\ UNCHANGED <<heap, accepted, midSplit>>
    /\ StepFrame

\* Line 65: if (points.size() < QT_NODE_MAX_CAPACITY)
I65(t) ==
    /\ At(t, "Insert", "I65")
    /\ \E pts \in Rd(t, Top(t).node, "points") :
          thr' = [thr EXCEPT ![t] =
                     Goto(Saw(@, Top(t).node, "points", pts),
                          IF Len(pts) < QT_NODE_MAX_CAPACITY
                          THEN "I66" ELSE "I73")]
    /\ UNCHANGED <<heap, accepted, midSplit>>
    /\ StepFrame

\* Lines 66-67: points.push_back(data); return true;
\* push_back reads the vector and writes it back one entry longer.
I66(t) ==
    /\ At(t, "Insert", "I66")
    /\ \E pts \in Rd(t, Top(t).node, "points") :
          /\ heap' = [heap EXCEPT ![Top(t).node].points = Append(pts, thr[t].d)]
          /\ thr' = [thr EXCEPT ![t] =
                        AfterReturnInsert(
                            Wrote(Saw(@, Top(t).node, "points", pts),
                                  Top(t).node, "points", Append(pts, thr[t].d)),
                            TRUE)]
    /\ accepted' = [accepted EXCEPT ![thr[t].d] = @ + 1]
    /\ UNCHANGED midSplit
    /\ StepFrame

\* Lines 73-74: if (northWest == nullptr) Subdivide();
I73(t) ==
    /\ At(t, "Insert", "I73")
    /\ \E p \in Rd(t, Top(t).node, "northWest") :
          thr' = [thr EXCEPT ![t] =
                     Goto(Saw(@, Top(t).node, "northWest", p),
                          IF p = NULL THEN "S102" ELSE "I76")]
    /\ UNCHANGED <<heap, accepted, midSplit>>
    /\ StepFrame

\* The size and the centre Subdivide gives the child in quadrant
\* (sx, sy) of node n (lines 99, 101, 104, 107, 110).
ChildBoundaries(n, sx, sy) ==
    LET b == heap[n].boundaries
    IN Rect_AABB(Vector2(b.centerPoint.x + sx * b.halfDimension.x,
                         b.centerPoint.y + sy * b.halfDimension.y),
                 Vector2(b.halfDimension.x, b.halfDimension.y))

\* The statement  f = new PointQuadTree(Rect_AABB(child_center,
\* children_size))  of Subdivide at label pc, going on at label next: the
\* node is allocated, then the pointer is written.
NewChild(t, pc, f, sx, sy, next) ==
    /\ At(t, "Insert", pc)
    /\ LET n == Top(t).node
           c == PointQuadTree(ChildBoundaries(n, sx, sy))
       IN /\ heap' = Append([heap EXCEPT ![n] = [@ EXCEPT ![f] = Len(heap) + 1]], c)
          /\ thr' = [u \in Threads |->
                      IF u = t
                      THEN Goto([Wrote(thr[u], n, f, Len(heap) + 1)
                                    EXCEPT !.view = Append(@, c)], next)
                      ELSE IF thr[u].status = "running"
                      THEN [thr[u] EXCEPT !.view = Append(@, c)]
                      ELSE thr[u]]
    /\ UNCHANGED <<accepted, midSplit>>
    /\ StepFrame

\* Line 102: southWest = new PointQuadTree(...)
S102(t) == NewChild(t, "S102", "southWest", -1, -1, "S105")

\* Line 105: southEast = new PointQuadTree(...)
S105(t) == NewChild(t, "S105", "southEast", 1, -1, "S108")

\* Line 108: northWest = new PointQuadTree(...)
S108(t) == NewChild(t, "S108", "northWest", -1, 1, "S111")

\* Line 111: northEast = new PointQuadTree(...); Subdivide returns.
S111(t) == NewChild(t, "S111", "northEast", 1, 1, "I76")

\* Delegate that calls Insert on the node itself.
Delegate_Self(t, pc, f, wait) ==
    /\ At(t, "Insert", pc)
    /\ thr' = [thr EXCEPT ![t] =
                  [Goto(@, wait) EXCEPT !.stack =
                      Append(@, Frame("Insert", Top(t).node, "I60"))]]
    /\ UNCHANGED <<heap, accepted, midSplit>>
    /\ StepFrame

\* The call f->Insert(data) made at label pc, the caller then waiting at
\* label wait.  Calling through a null pointer is undefined: the call is
\* recorded as a fault and the thread stops.
Delegate(t, pc, f, wait) ==
    /\ At(t, "Insert", pc)
    /\ \E p \in Rd(t, Top(t).node, f) :
          thr' = [thr EXCEPT ![t] =
                     IF p = NULL
                     THEN Stopped(Saw(@, Top(t).node, f, p), "fault")
                     ELSE [Goto(Saw(@, Top(t).node, f, p), wait) EXCEPT !.stack =
                              Append(@, Frame("Insert", p, "I60"))]]
    /\ UNCHANGED <<heap, accepted, midSplit>>
    /\ StepFrame

\* Line 76: if (northWest->Insert(data)) return true;
I76(t) == Delegate(t, "I76", "northWest", "R76")

\* Line 77: if (northEast->Insert(data)) return true;
I77(t) == Delegate(t, "I77", "northEast", "R77")

\* Line 78: if (southEast->Insert(data)) return true;
I78(t) == Delegate(t, "I78", "southEast", "R78")

\* Line 79: if (southWest->Insert(data)) return true;
I79(t) == Delegate(t, "I79", "southWest", "R79")

\* Line 149: if (!boundaries.Intersects_AABB(range)) return;
Q149(t) ==
    /\ At(t, "QueryRange", "Q149")
    /\ thr' = [thr EXCEPT ![t] =
                  IF Intersects_AABB(heap[Top(t).node].boundaries, thr[t].rng)
                  THEN Goto(@, "Q154")
                  ELSE AfterReturnQuery(@)]
    /\ UNCHANGED <<heap, accepted, midSplit>>
    /\ StepFrame

\* Lines 154-158: the loop over the bucket, read in one step.
Q154(t) ==
    /\ At(t, "QueryRange", "Q154")
    /\ \E pts \in Rd(t, Top(t).node, "points") :
          thr' = [thr EXCEPT ![t] =
                     [Goto(Saw(@, Top(t).node, "points", pts), "Q161")
                         EXCEPT !.result = @ \o ScanPoints(pts, thr[t].rng)]]
    /\ UNCHANGED <<heap, accepted, midSplit>>
    /\ StepFrame

\* A null child pointer read on a node that has a child installed.
MidSplit(n, p) ==
    /\ p = NULL
    /\ \E f \in {"northWest", "northEast", "southEast", "southWest"} :
          heap[n][f] # NULL

\* Line 161 testing southWest, the child Subdivide installs first.
Q161_TestsSouthWest(t) ==
    /\ At(t, "QueryRange", "Q161")
    /\ \E p \in Rd(t, Top(t).node, "southWest") :
          /\ thr' = [thr EXCEPT ![t] =
                        IF p = NULL
                        THEN AfterReturnQuery(Saw(@, Top(t).node, "southWest", p))
                        ELSE Goto(Saw(@, Top(t).node, "southWest", p), "Q165")]
          /\ midSplit' = (midSplit \/ MidSplit(Top(t).node, p))
    /\ UNCHANGED <<heap, accepted>>
    /\ StepFrame

\* Line 161: if (northEast == nullptr) return;
Q161(t) ==
    /\ At(t, "QueryRange", "Q161")
    /\ \E p \in Rd(t, Top(t).node, "northEast") :
          /\ thr' = [thr EXCEPT ![t] =
                        IF p = NULL
                        THEN AfterReturnQuery(Saw(@, Top(t).node, "northEast", p))
                        ELSE Goto(Saw(@, Top(t).node, "northEast", p), "Q165")]
          /\ midSplit' = (midSplit \/ MidSplit(Top(t).node, p))
    /\ UNCHANGED <<heap, accepted>>
    /\ StepFrame

\* The call f->QueryRange_private_recursive(result, range) made at label
\* pc, the caller going on at label next once it returns.
Recurse(t, pc, f, next) ==
    /\ At(t, "QueryRange", pc)
    /\ \E p \in Rd(t, Top(t).node, f) :
          /\ thr' = [thr EXCEPT ![t] =
                        IF p = NULL
                        THEN Stopped(Saw(@, Top(t).node, f, p), "fault")
                        ELSE [Goto(Saw(@, Top(t).node, f, p), next) EXCEPT !.stack =
                                 Append(@, Frame("QueryRange", p, "Q149"))]]
          /\ midSplit' = (midSplit \/ MidSplit(Top(t).node, p))
    /\ UNCHANGED <<heap, accepted>>
    /\ StepFrame

\* Line 165: northEast->QueryRange_private_recursive(result, range);
Q165(t) == Recurse(t, "Q165", "northEast", "Q166")

\* Line 166: northWest->QueryRange_private_recursive(result, range);
Q166(t) == Recurse(t, "Q166", "northWest", "Q167")

\* Line 167: southEast->QueryRange_private_recursive(result, range);
Q167(t) == Recurse(t, "Q167", "southEast", "Q168")

\* Line 168: southWest->QueryRange_private_recursive(result, range);
Q168(t) == Recurse(t, "Q168", "southWest", "Q169")

InsertStep(t) ==
    \/ I60(t) \/ I65(t) \/ I66(t) \/ I73(t)
    \/ S102(t) \/ S105(t) \/ S108(t) \/ S111(t)
    \/ I76(t) \/ I77(t) \/ I78(t) \/ I79(t)

QueryStep(t) ==
    \/ Q149(t) \/ Q154(t) \/ Q161(t)
    \/ Q165(t) \/ Q166(t) \/ Q167(t) \/ Q168(t)

\* --- Sequential calls, statement by statement ---

\* One thread calls Insert again and again; a call starts when the
\* previous one has returned.
StartS == \E d \in Data_Node : TotalPoints(heap) < MaxInsertsS /\ StartInsert(1, d)

NextS == StartS \/ InsertStep(1)

\* A thread that is inside a call executes its next statement.
SpecS == Init /\ [][NextS]_vars /\ WF_vars(InsertStep(1))

\* --- Concurrent calls ---

InitC == Init /\ capacity = 1

\* The entries the concurrent specifications insert: those on the diagonal
\* through the root's centre, which has a point outside the root, the
\* centre (accepted by the first child asked) and points that only the
\* second and the last child asked accept.
DataC == {d \in Data_Node : d.point.x = d.point.y}

\* The tree is filled before any thread starts.
BuildCQ ==
    /\ \A t \in Threads : thr[t].status = "idle"
    /\ TotalPoints(heap) < MaxInsertsC
    /\ \E d \in DataC : InsertCall(d)
    /\ UNCHANGED cvars

\* The ranges the concurrent query asks for: centred on the root's centre.
RangesC == {r \in Ranges : r.centerPoint = RootBoundaries.centerPoint}

\* Thread 1 calls Insert once and thread 2 calls QueryRange once, each at
\* any time.
StartInsertCQ == \E d \in DataC : thr[1].status = "idle" /\ StartInsert(1, d)

StartQueryCQ == \E rng \in RangesC : thr[2].status = "idle" /\ StartQueryRange(2, rng)

NextCQ == BuildCQ \/ StartInsertCQ \/ StartQueryCQ \/ InsertStep(1) \/ QueryStep(2)

SpecCQ == InitC /\ [][NextCQ]_vars

\* The entries the two inserting threads insert: those of DataC off the
\* root's centre, which the first child asked rejects.
DataCI == {d \in DataC : d.point # RootBoundaries.centerPoint}

\* The root's bucket is filled before any thread starts; the root has not
\* split when the first thread starts.
BuildCI ==
    /\ \A t \in Threads : thr[t].status = "idle"
    /\ Len(heap[Root].points) < QT_NODE_MAX_CAPACITY
    /\ \E d \in DataCI : InsertCall(d)
    /\ UNCHANGED cvars

\* Each of the two threads calls Insert once, at any time; the threads
\* are alike, so thread 1 is the one that starts first.
StartInsertCI ==
    \E t \in Threads, d \in DataCI :
        /\ thr[t].status = "idle"
        /\ t = 2 => thr[1].status # "idle"
        /\ StartInsert(t, d)

StepCI == \E t \in Threads : InsertStep(t)

NextCI == BuildCI \/ StartInsertCI \/ StepCI

SpecCI == InitC /\ [][NextCI]_vars

\* The number of levels of the tree below and including node n.
RECURSIVE Levels(_, _)
Levels(h, n) ==
    IF ChildrenOf(h, n) = {} THEN 1
    ELSE 1 + CHOOSE m \in 1 .. Len(h) :
                 /\ \E c \in ChildrenOf(h, n) : Levels(h, c) = m
                 /\ \A c \in ChildrenOf(h, n) : Levels(h, c) <= m

\* C13: for every capacity, a call of Insert that runs alone returns, and
\* its recursion never goes deeper than one level below the levels the
\* tree had when the call began.
C13_InsertReturns ==
    /\ [](thr[1].status = "running"
            => Len(thr[1].stack) <= Levels(thr[1].h0, Root) + 1)
    /\ [](thr[1].status # "fault")
    /\ (thr[1].status = "running") ~> (thr[1].status = "done")

\* A call has returned true after it split a leaf on the lowest level of
\* a tree of two levels and stored its entry one level further down.
C13_Witness ==
    /\ thr[1].status = "done"
    /\ thr[1].ret
    /\ Levels(thr[1].h0, Root) = 2
    /\ Levels(heap, Root) = 3
    /\ capacity = 1

\* The contents a query may report for a range when the Insert of thread 1
\* ran entirely before it, and entirely after it.
Before(rng) ==
    QueryRange(IF thr[1].status = "idle" THEN heap ELSE thr[1].h0, rng)

After(rng) ==
    QueryRange(IF thr[1].status = "idle" THEN heap
               ELSE Insert(thr[1].h0, Root, thr[1].d).heap, rng)

\* The query of thread 2 went wrong: it called through a null child
\* pointer, or it returned something that is neither the contents before
\* the Insert nor the contents after it.
QueryWentWrong ==
    \/ thr[2].status = "fault"
    \/ /\ thr[2].status = "done"
       /\ thr[2].result # Before(thr[2].rng)
       /\ thr[2].result # After(thr[2].rng)

C14_FaultReached == thr[2].status = "fault" /\ thr[2].stale

\* A bucket holds more than QT_NODE_MAX_CAPACITY entries.
Overfull == \E n \in Nodes(heap) : Len(heap[n].points) > QT_NODE_MAX_CAPACITY

\* How often entry d is stored in the nodes of set S.
RECURSIVE Stored(_, _)
Stored(S, d) ==
    IF S = {} THEN 0
    ELSE LET n == CHOOSE n \in S : TRUE
         IN Count(heap[n].points, d) + Stored(S \ {n}, d)

\* An entry whose Insert returned true is no longer in the tree.
Lost ==
    \E d \in Data_Node :
        accepted[d] > 0 /\ Stored(Reachable(heap), d) < accepted[d]

\* An Insert called through a null child pointer.
Faulted == \E t \in Threads : thr[t].status = "fault"

\* C15: a bucket over capacity, an accepted entry that is lost, or a
\* delegation through a null child pointer happens only when two Insert
\* calls have overlapped; the witness is an interleaving that loses an
\* entry.
C15_BadOnlyInterleaved == (Overfull \/ Lost \/ Faulted) => overlap

\* Both calls returned true, the root was split twice and the entry of
\* one of them is in children the second split replaced.
C15_Witness ==
    /\ \A t \in Threads : thr[t].status = "done" /\ thr[t].ret /\ ~thr[t].stale
    /\ overlap
    /\ Lost
    /\ Len(heap) = 9

\* The other two outcomes C15 names.
C15_OverfullReached ==
    Overfull /\ overlap /\ \A t \in Threads : ~thr[t].stale

C15_FaultReached ==
    Faulted /\ overlap /\ \A t \in Threads : ~thr[t].stale

============================================================================
